---- MODULE Spec2Model ----
(***************************************************************************)
(* Model of the op-challenger fault package: the claim loader              *)
(* (op-challenger/fault/loader.go) and the fault responder                 *)
(* (op-challenger/fault/player.go).                                        *)
(*                                                                         *)
(* LoaderSpec    : a remote claim source that only grows, FetchClaims and  *)
(*                 PushClaims against one Game state.                      *)
(* ResponderSpec : concurrent Respond calls on one faultResponder, the     *)
(*                 queue workers they start, Quit and context cancels.     *)
(* TxDataSpec    : buildTxData applied to one response claim.              *)
(* PlayerSpec    : successive ProgressGame calls on one GamePlayer.         *)
(***************************************************************************)
EXTENDS Integers, Sequences, FiniteSets, TLC

\* ------------------------------------------------------------------ bounds
\* The remote claim array holds at most MaxClaims records.
MaxClaims == 3
\* Remote position integers range over 0..MaxGIndex (0: the loader test's mock,
\* 1: the root, 2: an attack of the root).
MaxGIndex == 2
\* Number of Respond invocations.
NumCalls == 2
\* The responder is built with a pending limit in 1..MaxLimit.
MaxLimit == 2
\* Response claims and their parents sit at generalized indices
\* 1..MaxResponseGIndex (3: the defence of the root).
MaxResponseGIndex == 3
\* Number of ProgressGame invocations.
MaxProgressCalls == 4

VARIABLES
    \* ---- loader
    remote,     \* the ClaimFetcher's claim array (the on-chain claimData)
    state,      \* loader.state: the Game's stored claims, in insertion order
    fetched,    \* what the last FetchClaims call did and returned
    pushed,     \* what the PushClaims call just made did and returned
    lastOp,     \* "none" | "move" | "fetch" | "push"
    \* ---- responder
    MaxPendingTransactions, \* faultResponder.MaxPendingTransactions
    shutdown,   \* shutdownCtx is cancelled
    pc,         \* per Respond call: "idle" | "waiting" | "returned"
    ret,        \* per Respond call: "none" | "nil" | "err"
    ctxDone,    \* per Respond call: the caller's ctx is cancelled
    receiptsCh, \* per Respond call: the channel it made (0: none yet)
    nextCh,     \* channels made so far
    queue,      \* per Respond call: the sends active in the Queue it made
    worker,     \* per Respond call: the goroutine queue.Send started
    received,   \* per Respond call: the workers whose receipt it consumed
    \* ---- buildTxData
    response,   \* the response claim given to buildTxData
    txBuilt,    \* what buildTxData returned for it
    \* ---- game player
    agreeWithProposedOutput, \* GamePlayer.agreeWithProposedOutput
    completed,  \* GamePlayer.completed
    progress    \* what the ProgressGame calls made so far did and returned

loaderVars == <<remote, state, fetched, pushed, lastOp>>
responderVars == <<MaxPendingTransactions, shutdown, pc, ret, ctxDone,
                   receiptsCh, nextCh, queue, worker, received>>
txVars == <<response, txBuilt>>
playerVars == <<agreeWithProposedOutput, completed, progress>>
vars == <<loaderVars, responderVars, txVars, playerVars>>

\* ------------------------------------------------------------------ errors
Nil == [kind |-> "nil", at |-> 0]
\* The error of the ClaimDataLen call.
ErrClaimLen == [kind |-> "ClaimDataLen", at |-> 0]
\* The error of the n-th ClaimData call of one FetchClaims.
ErrClaimData(n) == [kind |-> "ClaimData", at |-> n]
\* The error the store returns from its n-th Put of one PushClaims.
ErrPut(n) == [kind |-> "Put", at |-> n]
\* The Game's own rejection of an occupied position.
ErrClaimExists == [kind |-> "ClaimExists", at |-> 0]

\* ---------------------------------------------------------------- position
Pow2(n) == 2 ^ n

RECURSIVE MSBIndex(_)
\* Index of the most significant set bit; 0 for 0.
MSBIndex(x) == IF x <= 1 THEN 0 ELSE 1 + MSBIndex(x \div 2)

\* A Position is (depth, indexAtDepth); the generalized index g is
\* 2^depth + indexAtDepth.  The constructor clears the top bit of its argument.
\* It returns a Position for every integer: fetchClaim uses its result with
\* no error to test, and TestLoader_FetchClaims_Succeeds gets a claim back
\* for a record whose position is 0.
NewPositionFromGIndex(x) ==
    LET depth == MSBIndex(x)
    IN  [depth |-> depth,
         indexAtDepth |-> IF x = 0 THEN 0 ELSE x - Pow2(depth)]

ToGIndex(pos) == Pow2(pos.depth) + pos.indexAtDepth

ZeroPosition == [depth |-> 0, indexAtDepth |-> 0]
ZeroClaimData == [Value |-> 0, Position |-> ZeroPosition]
ZeroClaim ==
    [ClaimData |-> ZeroClaimData, Parent |-> ZeroClaimData,
     ParentContractIndex |-> 0, Countered |-> FALSE, Clock |-> 0]

IsRootPosition(claim) ==
    claim.ClaimData.Position.depth = 0
    /\ claim.ClaimData.Position.indexAtDepth = 0

\* ------------------------------------------------------------- remote source
ZeroRecord ==
    [ParentIndex |-> 0, Countered |-> FALSE, Claim |-> 0, Position |-> 0,
     Clock |-> 0]

\* Number of ClaimData calls a FetchClaims of rem makes when none errors:
\* one per record and one more per record that is not at the root.
CallsNeeded(rem) ==
    Len(rem)
    + Cardinality({k \in 1 .. Len(rem) :
                     NewPositionFromGIndex(rem[k].Position) # ZeroPosition})

\* The fetcher's faults during one FetchClaims of rem: whether ClaimDataLen
\* errors, and which ClaimData call (counted from 1; 0: none) errors.
FetchEnvs(rem) ==
    {[lenFails |-> TRUE, failCall |-> 0]}
    \cup [lenFails : {FALSE}, failCall : 0 .. CallsNeeded(rem)]

ClaimDataLen(rem, env) ==
    IF env.lenFails THEN [n |-> 0, err |-> ErrClaimLen]
    ELSE [n |-> Len(rem), err |-> Nil]

\* The callNo-th ClaimData call of a FetchClaims, for array index arg0.
ClaimData(rem, arg0, callNo, env) ==
    IF callNo = env.failCall
    THEN [data |-> ZeroRecord, err |-> ErrClaimData(callNo)]
    ELSE [data |-> rem[arg0 + 1], err |-> Nil]

\* ------------------------------------------------------------------- loader
\* One entry of the log of ClaimData calls: the array index asked for, and
\* whether fetchClaim asked for the claim itself or for its parent.
Call(arg0, role) == [arg |-> arg0, role |-> role]

\* (a mix-up of the two fetched records: the claim's value is read from the
\* parent's record)
fetchClaimMixesRecords(rem, arrIndex, calls, env) ==
    LET r1 == ClaimData(rem, arrIndex, Len(calls) + 1, env)
        calls1 == Append(calls, Call(arrIndex, "claim"))
        fetchedClaim == r1.data
        claim == [ZeroClaim EXCEPT
                    !.ClaimData = [Value |-> fetchedClaim.Claim,
                                   Position |-> NewPositionFromGIndex(fetchedClaim.Position)]]
    IN  IF r1.err # Nil
        THEN [claim |-> ZeroClaim, err |-> r1.err, calls |-> calls1]
        ELSE IF ~IsRootPosition(claim)
        THEN LET parentIndex == fetchedClaim.ParentIndex
                 r2 == ClaimData(rem, parentIndex, Len(calls1) + 1, env)
                 calls2 == Append(calls1, Call(parentIndex, "parent"))
                 parentClaim == r2.data
             IN  IF r2.err # Nil
                 THEN [claim |-> ZeroClaim, err |-> r2.err, calls |-> calls2]
                 ELSE [claim |-> [claim EXCEPT
                                    !.ClaimData.Value = parentClaim.Claim,
                                    !.Parent = [Value |-> parentClaim.Claim,
                                                Position |-> NewPositionFromGIndex(parentClaim.Position)]],
                       err |-> Nil, calls |-> calls2]
        ELSE [claim |-> claim, err |-> Nil, calls |-> calls1]

\* (the parent is fetched for every claim, the root too)
fetchClaimAlwaysHydrates(rem, arrIndex, calls, env) ==
    LET r1 == ClaimData(rem, arrIndex, Len(calls) + 1, env)
        calls1 == Append(calls, Call(arrIndex, "claim"))
        fetchedClaim == r1.data
        claim == [ZeroClaim EXCEPT
                    !.ClaimData = [Value |-> fetchedClaim.Claim,
                                   Position |-> NewPositionFromGIndex(fetchedClaim.Position)]]
    IN  IF r1.err # Nil
        THEN [claim |-> ZeroClaim, err |-> r1.err, calls |-> calls1]
        ELSE LET parentIndex == fetchedClaim.ParentIndex
                 r2 == ClaimData(rem, parentIndex, Len(calls1) + 1, env)
                 calls2 == Append(calls1, Call(parentIndex, "parent"))
                 parentClaim == r2.data
             IN  IF r2.err # Nil
                 THEN [claim |-> ZeroClaim, err |-> r2.err, calls |-> calls2]
                 ELSE [claim |-> [claim EXCEPT
                                    !.Parent = [Value |-> parentClaim.Claim,
                                                Position |-> NewPositionFromGIndex(parentClaim.Position)]],
                       err |-> Nil, calls |-> calls2]

\* fetchClaim: calls is the log of the ClaimData calls made so far in this
\* FetchClaims.
fetchClaim(rem, arrIndex, calls, env) ==
    LET r1 == ClaimData(rem, arrIndex, Len(calls) + 1, env)
        calls1 == Append(calls, Call(arrIndex, "claim"))
        fetchedClaim == r1.data
        claim == [ZeroClaim EXCEPT
                    !.ClaimData = [Value |-> fetchedClaim.Claim,
                                   Position |-> NewPositionFromGIndex(fetchedClaim.Position)]]
    IN  IF r1.err # Nil
        THEN [claim |-> ZeroClaim, err |-> r1.err, calls |-> calls1]
        ELSE IF ~IsRootPosition(claim)
        THEN LET parentIndex == fetchedClaim.ParentIndex
                 r2 == ClaimData(rem, parentIndex, Len(calls1) + 1, env)
                 calls2 == Append(calls1, Call(parentIndex, "parent"))
                 parentClaim == r2.data
             IN  IF r2.err # Nil
                 THEN [claim |-> ZeroClaim, err |-> r2.err, calls |-> calls2]
                 ELSE [claim |-> [claim EXCEPT
                                    !.Parent = [Value |-> parentClaim.Claim,
                                                Position |-> NewPositionFromGIndex(parentClaim.Position)]],
                       err |-> Nil, calls |-> calls2]
        ELSE [claim |-> claim, err |-> Nil, calls |-> calls1]

RECURSIVE FetchLoopPartial(_, _, _, _, _, _)
\* (on an error the list built so far is returned with it)
FetchLoopPartial(rem, claimCount, i, claimList, calls, env) ==
    IF i >= claimCount
    THEN [claims |-> claimList, err |-> Nil, calls |-> calls]
    ELSE LET r == fetchClaim(rem, i, calls, env)
         IN  IF r.err # Nil
             THEN [claims |-> claimList, err |-> r.err, calls |-> r.calls]
             ELSE FetchLoopPartial(rem, claimCount, i + 1,
                                   [claimList EXCEPT ![i + 1] = r.claim], r.calls, env)

RECURSIVE FetchLoop(_, _, _, _, _, _)
\* The for loop of FetchClaims from index i on.
FetchLoop(rem, claimCount, i, claimList, calls, env) ==
    IF i >= claimCount
    THEN [claims |-> claimList, err |-> Nil, calls |-> calls]
    ELSE LET r == fetchClaim(rem, i, calls, env)
         IN  IF r.err # Nil
             THEN [claims |-> <<>>, err |-> r.err, calls |-> r.calls]
             ELSE FetchLoop(rem, claimCount, i + 1,
                            [claimList EXCEPT ![i + 1] = r.claim], r.calls, env)

\* (the error of ClaimDataLen is dropped and its zero count used)
FetchClaimsIgnoresLenErr(rem, env) ==
    LET len == ClaimDataLen(rem, env)
    IN  FetchLoop(rem, len.n, 0, [k \in 1 .. len.n |-> ZeroClaim], <<>>, env)

FetchClaimsResult(rem, env) ==
    LET len == ClaimDataLen(rem, env)
    IN  IF len.err # Nil
        THEN [claims |-> <<>>, err |-> len.err, calls |-> <<>>]
        ELSE FetchLoop(rem, len.n, 0, [k \in 1 .. len.n |-> ZeroClaim], <<>>, env)

\* Game.IsDuplicate: a stored claim already occupies the claim's position.
IsDuplicate(tree, claim) ==
    \E k \in 1 .. Len(tree) :
        tree[k].ClaimData.Position = claim.ClaimData.Position

\* Game.Put, as the callNo-th Put of a PushClaims whose store errors on its
\* failPut-th call (0: never).
Put(tree, claim, callNo, failPut) ==
    IF callNo = failPut THEN [tree |-> tree, err |-> ErrPut(callNo)]
    ELSE IF IsDuplicate(tree, claim) THEN [tree |-> tree, err |-> ErrClaimExists]
    ELSE [tree |-> Append(tree, claim), err |-> Nil]

RECURSIVE PushLoopContinues(_, _, _, _, _, _)
\* (the first error is remembered and returned after the whole range)
PushLoopContinues(tree, claims, i, puts, failPut, firstErr) ==
    IF i > Len(claims)
    THEN [tree |-> tree, err |-> firstErr, puts |-> puts]
    ELSE LET r == Put(tree, claims[i], Len(puts) + 1, failPut)
         IN  PushLoopContinues(r.tree, claims, i + 1,
                               Append(puts, [claim |-> claims[i], err |-> r.err]),
                               failPut,
                               IF firstErr = Nil THEN r.err ELSE firstErr)

PushLoopKeepsGoing(tree, claims, i, puts, failPut) ==
    PushLoopContinues(tree, claims, i, puts, failPut, Nil)

RECURSIVE PushLoop(_, _, _, _, _)
\* The range loop of PushClaims from the i-th claim on; puts is the log of
\* the Put calls made so far: the claim given and the error returned.
PushLoop(tree, claims, i, puts, failPut) ==
    IF i > Len(claims)
    THEN [tree |-> tree, err |-> Nil, puts |-> puts]
    ELSE LET r == Put(tree, claims[i], Len(puts) + 1, failPut)
             puts1 == Append(puts, [claim |-> claims[i], err |-> r.err])
         IN  IF r.err # Nil
             THEN [tree |-> r.tree, err |-> r.err, puts |-> puts1]
             ELSE PushLoop(r.tree, claims, i + 1, puts1, failPut)

\* (the range starts at the second claim)
PushClaimsFromSecond(tree, claims, failPut) == PushLoop(tree, claims, 2, <<>>, failPut)

\* (on an error the state is put back as it was before the call)
PushClaimsAtomic(tree, claims, failPut) ==
    LET r == PushLoop(tree, claims, 1, <<>>, failPut)
    IN  IF r.err # Nil THEN [r EXCEPT !.tree = tree] ELSE r

PushClaimsResult(tree, claims, failPut) == PushLoop(tree, claims, 1, <<>>, failPut)

\* ---------------------------------------------------------- loader actions
NoFetch == [claims |-> <<>>, err |-> Nil, calls |-> <<>>,
            env |-> [lenFails |-> FALSE, failCall |-> 0]]
NoPush == [input |-> <<>>, err |-> Nil, puts |-> <<>>, failPut |-> 0,
           before |-> <<>>]

\* A move on the remote game appends one record and marks the record it
\* answers as countered.  The 32-byte claim and the clock are opaque to the
\* loader; each record gets its own.  The position is whatever the remote
\* source reports.
RemoteMove ==
    /\ Len(remote) < MaxClaims
    /\ \E position \in 0 .. MaxGIndex,
          parentIndex \in 0 .. (IF Len(remote) = 0 THEN 0 ELSE Len(remote) - 1) :
          LET record == [ParentIndex |-> parentIndex, Countered |-> FALSE,
                         Claim |-> Len(remote) + 1, Position |-> position,
                         Clock |-> Len(remote) + 1]
              marked == [k \in 1 .. Len(remote) |->
                           IF k = parentIndex + 1
                           THEN [remote[k] EXCEPT !.Countered = TRUE]
                           ELSE remote[k]]
          IN  remote' = Append(marked, record)
    /\ lastOp' = "move"
    /\ pushed' = NoPush
    /\ UNCHANGED <<state, fetched>>

\* (every claim is Put into the Game state as part of the fetch)
FetchClaimsAndPut ==
    /\ \E env \in FetchEnvs(remote) :
          LET r == FetchClaimsResult(remote, env)
              w == PushClaimsResult(state, r.claims, 0)
          IN  /\ fetched' = [claims |-> r.claims,
                             err |-> IF r.err # Nil THEN r.err ELSE w.err,
                             calls |-> r.calls, env |-> env]
              /\ state' = w.tree
    /\ lastOp' = "fetch"
    /\ pushed' = NoPush
    /\ UNCHANGED remote

FetchClaims ==
    /\ \E env \in FetchEnvs(remote) :
          LET r == FetchClaimsResult(remote, env)
          IN  fetched' = [claims |-> r.claims, err |-> r.err, calls |-> r.calls,
                          env |-> env]
    /\ lastOp' = "fetch"
    /\ pushed' = NoPush
    /\ UNCHANGED <<remote, state>>

\* PushClaims of the sequence the last FetchClaims returned.
PushClaims ==
    /\ \E failPut \in 0 .. Len(fetched.claims) :
          LET r == PushClaimsResult(state, fetched.claims, failPut)
          IN  /\ state' = r.tree
              /\ pushed' = [input |-> fetched.claims, err |-> r.err,
                            puts |-> r.puts, failPut |-> failPut,
                            before |-> state]
    /\ lastOp' = "push"
    /\ UNCHANGED <<remote, fetched>>

\* --------------------------------------------------------- transaction data
\* The error of the contract binding's Defend or Attack.
ErrEncode == [kind |-> "Encode", at |-> 0]

NoTransaction == [data |-> [method |-> "none", parentIndex |-> 0, pivot |-> 0],
                  to |-> "none"]
NoTxData == [data |-> NoTransaction.data, dest |-> "none"]

\* The response claims handed to buildTxData: a value, a position, the
\* position of the claim answered and its index in the contract's array.
Responses ==
    {[ZeroClaim EXCEPT
        !.ClaimData = [Value |-> v, Position |-> NewPositionFromGIndex(g)],
        !.Parent = [Value |-> 0, Position |-> NewPositionFromGIndex(pg)],
        !.ParentContractIndex = i] :
            v \in 1 .. MaxClaims, g \in 1 .. MaxResponseGIndex,
            pg \in 1 .. MaxResponseGIndex, i \in 0 .. MaxClaims - 1}

\* Claim.DefendsParent: the claim sits at the right child of its parent's
\* position.
DefendsParent(claim) ==
    ToGIndex(claim.ClaimData.Position) = 2 * ToGIndex(claim.Parent.Position) + 1

\* Claim.ValueBytes: the claim's 32-byte value.
ValueBytes(claim) == claim.ClaimData.Value

\* FaultDisputeGameTransactor.Defend / Attack under empty TransactOpts: the
\* transaction calling the method with the two arguments, or an error.
Transact(method, parentIndex, pivot, encodeFails) ==
    IF encodeFails THEN [tx |-> NoTransaction, err |-> ErrEncode]
    ELSE [tx |-> [data |-> [method |-> method, parentIndex |-> parentIndex,
                            pivot |-> pivot],
                  to |-> "fdgAddr"],
          err |-> Nil]

Defend(parentIndex, pivot, encodeFails) ==
    Transact("defend", parentIndex, pivot, encodeFails)

Attack(parentIndex, pivot, encodeFails) ==
    Transact("attack", parentIndex, pivot, encodeFails)

NewFaultResponderTxData(tx) == [data |-> tx.data, dest |-> tx.to]

\* (the two branches are exchanged)
buildTxDataSwapped(resp, encodeFails) ==
    LET bigIndex == resp.ParentContractIndex
        r == IF DefendsParent(resp)
             THEN Attack(bigIndex, ValueBytes(resp), encodeFails)
             ELSE Defend(bigIndex, ValueBytes(resp), encodeFails)
    IN  IF r.err # Nil THEN [txData |-> NoTxData, err |-> r.err]
        ELSE [txData |-> NewFaultResponderTxData(r.tx), err |-> Nil]

buildTxData(resp, encodeFails) ==
    LET bigIndex == resp.ParentContractIndex
        r == IF DefendsParent(resp)
             THEN Defend(bigIndex, ValueBytes(resp), encodeFails)
             ELSE Attack(bigIndex, ValueBytes(resp), encodeFails)
    IN  IF r.err # Nil THEN [txData |-> NoTxData, err |-> r.err]
        ELSE [txData |-> NewFaultResponderTxData(r.tx), err |-> Nil]

NoBuild == [built |-> FALSE, txData |-> NoTxData, err |-> Nil]

IdleTx ==
    /\ response = ZeroClaim
    /\ txBuilt = NoBuild

\* buildTxData is applied to the response claim.
BuildTxData ==
    /\ ~txBuilt.built
    /\ \E encodeFails \in BOOLEAN :
          LET r == buildTxData(response, encodeFails)
          IN  txBuilt' = [built |-> TRUE, txData |-> r.txData, err |-> r.err]
    /\ UNCHANGED response

\* -------------------------------------------------------------- game player
GameStatusInProgress == "InProgress"
GameStatuses == {GameStatusInProgress, "ChallengerWon", "DefenderWon"}

\* (no early return: a completed game is acted on and queried like any other)
ProgressGameNoSkip(done, statusErr, status) ==
    IF statusErr
    THEN [completed |-> done, ret |-> FALSE, acted |-> TRUE, queried |-> TRUE]
    ELSE [completed |-> status # GameStatusInProgress,
          ret |-> status # GameStatusInProgress,
          acted |-> TRUE, queried |-> TRUE]

\* ProgressGame on a player whose completed flag is done, when GetGameStatus
\* returns (status, statusErr): the flag afterwards, the value returned, and
\* whether agent.Act and GetGameStatus were called.  An error of Act is
\* logged and changes nothing.
ProgressGameResult(done, statusErr, status) ==
    IF done
    THEN [completed |-> done, ret |-> TRUE, acted |-> FALSE, queried |-> FALSE]
    ELSE IF statusErr
    THEN [completed |-> done, ret |-> FALSE, acted |-> TRUE, queried |-> TRUE]
    ELSE [completed |-> status # GameStatusInProgress,
          ret |-> status # GameStatusInProgress,
          acted |-> TRUE, queried |-> TRUE]

\* logGameStatus: what is logged for a status, and whether GetClaimCount
\* was called for it.
logGameStatus(agree, status, countErr) ==
    IF status = GameStatusInProgress
    THEN [line |-> IF countErr THEN "Failed to get claim count" ELSE "Game info",
          counted |-> TRUE]
    ELSE LET expectedStatus == IF agree THEN "ChallengerWon" ELSE "DefenderWon"
         IN  [line |-> IF expectedStatus = status THEN "Game won" ELSE "Game lost",
              counted |-> FALSE]

NoProgress ==
    [calls |-> 0, acts |-> 0, queries |-> 0, ret |-> FALSE, before |-> FALSE,
     statusErr |-> FALSE, status |-> GameStatusInProgress, actErr |-> FALSE,
     sawResolved |-> FALSE, line |-> "none", counts |-> 0]

\* NewGamePlayer leaves completed at its zero value.
IdlePlayer ==
    /\ agreeWithProposedOutput = FALSE
    /\ completed = FALSE
    /\ progress = NoProgress

ProgressGame ==
    /\ progress.calls < MaxProgressCalls
    /\ \E actErr \in BOOLEAN, statusErr \in BOOLEAN, status \in GameStatuses,
          countErr \in BOOLEAN :
          LET r == ProgressGameResult(completed, statusErr, status)
              logged == r.queried /\ ~statusErr
              l == logGameStatus(agreeWithProposedOutput, status, countErr)
          IN  /\ completed' = r.completed
              /\ progress' =
                    [calls |-> progress.calls + 1,
                     acts |-> progress.acts + (IF r.acted THEN 1 ELSE 0),
                     queries |-> progress.queries + (IF r.queried THEN 1 ELSE 0),
                     ret |-> r.ret,
                     before |-> completed,
                     statusErr |-> r.queried /\ statusErr,
                     status |-> IF r.queried /\ ~statusErr THEN status
                                ELSE progress.status,
                     actErr |-> r.acted /\ actErr,
                     line |-> IF logged THEN l.line
                              ELSE IF r.queried THEN "Unable to retrieve game status"
                              ELSE "Skipping completed game",
                     counts |-> progress.counts
                                + (IF logged /\ l.counted THEN 1 ELSE 0),
                     sawResolved |-> \/ progress.sawResolved
                                     \/ /\ r.queried
                                        /\ ~statusErr
                                        /\ status # GameStatusInProgress]
    /\ UNCHANGED agreeWithProposedOutput

\* ---------------------------------------------------------------- responder
Calls == 1 .. NumCalls

NoWorker == [st |-> "none", ch |-> 0, status |-> "none"]

IdleResponder ==
    /\ shutdown = FALSE
    /\ pc = [p \in Calls |-> "idle"]
    /\ ret = [p \in Calls |-> "none"]
    /\ ctxDone = [p \in Calls |-> FALSE]
    /\ receiptsCh = [p \in Calls |-> 0]
    /\ nextCh = 0
    /\ queue = [p \in Calls |-> {}]
    /\ worker = [p \in Calls |-> NoWorker]
    /\ received = [p \in Calls |-> {}]

EmptyLoader ==
    /\ remote = <<>>
    /\ state = <<>>
    /\ fetched = NoFetch
    /\ pushed = NoPush
    /\ lastOp = "none"

\* (one channel, kept by the responder, is handed to every call)
MakeChanShared(n) == 1

\* make(chan ...): the n channels made so far are 1..n; the new one is n + 1.
MakeChan(n) == n + 1

\* txmgr.NewQueue: a queue of its own, with no send active.
NewQueue == {}

\* Queue.Send admits a send while fewer than the limit are active in that
\* queue.
Admits(q, limit) == Cardinality(q) < limit

\* The statuses a receipt carries.
ReceiptStatuses == {"success", "failed"}

\* (the receipt's status decides the returned error)
ReturnChecksStatus(status) == IF status = "failed" THEN "err" ELSE "nil"

\* What Respond returns after handleReceipts took a receipt of this status.
ReturnAfterReceipt(status) == "nil"

\* (the select waits on the caller's ctx in place of shutdownCtx)
CallerCtxDone(p) == ctxDone[p]

\* case <-r.shutdownCtx.Done()
ShutdownDone(p) == shutdown

\* case rec := <-receiptsCh: worker w is blocked sending on the channel that
\* call p receives from.
ReceiptReady(p, w) ==
    /\ worker[w].st = "sending"
    /\ worker[w].ch = receiptsCh[p]

\* Transactions handed to the transaction manager and not yet completed.
InFlight == {w \in Calls : worker[w].st = "inflight"}

\* (the error of buildTxData is looked at after queue.Send)
ReturnEncodeErrorAfterSend(p) ==
    /\ nextCh' = nextCh + 1
    /\ receiptsCh' = [receiptsCh EXCEPT ![p] = nextCh + 1]
    /\ queue' = [queue EXCEPT ![p] = {p}]
    /\ worker' = [worker EXCEPT
                    ![p] = [st |-> "inflight", ch |-> nextCh + 1,
                            status |-> "none"]]
    /\ pc' = [pc EXCEPT ![p] = "returned"]
    /\ ret' = [ret EXCEPT ![p] = "err"]

\* Respond when buildTxData returned an error: return it.
ReturnEncodeError(p) ==
    /\ pc' = [pc EXCEPT ![p] = "returned"]
    /\ ret' = [ret EXCEPT ![p] = "err"]
    /\ UNCHANGED <<receiptsCh, nextCh, queue, worker>>

\* The response claims given to Respond.  Respond looks at its response only
\* through the error of buildTxData, so one value and one parent index stand
\* for all; the positions vary.
RespondInputs ==
    {r \in Responses : r.ClaimData.Value = 1 /\ r.ParentContractIndex = 0}

\* Respond up to the point where it blocks in handleReceipts: buildTxData,
\* make the channel, make the queue, queue.Send (which starts the worker that
\* hands the candidate to the transaction manager).
Respond(p) ==
    /\ pc[p] = "idle"
    /\ \E resp \in RespondInputs, encodeFails \in BOOLEAN :
          IF buildTxData(resp, encodeFails).err # Nil
          THEN ReturnEncodeError(p)
          ELSE LET ch == MakeChan(nextCh)
                   q == NewQueue
               IN  /\ Admits(q, MaxPendingTransactions)
                   /\ nextCh' = nextCh + 1
                   /\ receiptsCh' = [receiptsCh EXCEPT ![p] = ch]
                   /\ queue' = [queue EXCEPT ![p] = q \cup {p}]
                   /\ worker' = [worker EXCEPT
                                   ![p] = [st |-> "inflight", ch |-> ch,
                                           status |-> "none"]]
                   /\ pc' = [pc EXCEPT ![p] = "waiting"]
                   /\ UNCHANGED ret
    /\ UNCHANGED <<MaxPendingTransactions, shutdown, ctxDone, received>>

\* The transaction manager's Send returns in worker w: the transaction landed
\* or was abandoned.  The worker then blocks sending the receipt.
TxMgrSendReturns(w) ==
    /\ worker[w].st = "inflight"
    /\ \E status \in ReceiptStatuses :
          worker' = [worker EXCEPT ![w].st = "sending", ![w].status = status]
    /\ UNCHANGED <<MaxPendingTransactions, shutdown, pc, ret, ctxDone,
                   receiptsCh, nextCh, queue, received>>

\* handleReceipts, receipt case: the unbuffered send of worker w and the
\* receive of call p happen together; the worker ends and leaves its queue.
HandleReceiptsRecv(p) ==
    /\ pc[p] = "waiting"
    /\ \E w \in Calls :
          /\ ReceiptReady(p, w)
          /\ worker' = [worker EXCEPT ![w].st = "done"]
          /\ queue' = [q \in Calls |-> queue[q] \ {w}]
          /\ received' = [received EXCEPT ![p] = @ \cup {w}]
          /\ ret' = [ret EXCEPT ![p] = ReturnAfterReceipt(worker[w].status)]
    /\ pc' = [pc EXCEPT ![p] = "returned"]
    /\ UNCHANGED <<MaxPendingTransactions, shutdown, ctxDone, receiptsCh, nextCh>>

\* handleReceipts, shutdown case.
HandleReceiptsShutdown(p) ==
    /\ pc[p] = "waiting"
    /\ ShutdownDone(p)
    /\ pc' = [pc EXCEPT ![p] = "returned"]
    /\ ret' = [ret EXCEPT ![p] = "nil"]
    /\ UNCHANGED <<MaxPendingTransactions, shutdown, ctxDone, receiptsCh,
                   nextCh, queue, worker, received>>

\* The select of handleReceipts.
HandleReceipts(p) == HandleReceiptsRecv(p) \/ HandleReceiptsShutdown(p)

Quit ==
    /\ shutdown' = TRUE
    /\ UNCHANGED <<MaxPendingTransactions, pc, ret, ctxDone, receiptsCh,
                   nextCh, queue, worker, received>>

\* The caller cancels the ctx it gave to call p (or its deadline passes).
CancelCtx(p) ==
    /\ ~ctxDone[p]
    /\ ctxDone' = [ctxDone EXCEPT ![p] = TRUE]
    /\ UNCHANGED <<MaxPendingTransactions, shutdown, pc, ret, receiptsCh,
                   nextCh, queue, worker, received>>

\* ------------------------------------------------------------ specifications
LoaderInit ==
    /\ EmptyLoader
    /\ IdleResponder /\ MaxPendingTransactions = 1
    /\ IdleTx
    /\ IdlePlayer

LoaderNext ==
    \/ RemoteMove /\ UNCHANGED <<responderVars, txVars, playerVars>>
    \/ FetchClaims /\ UNCHANGED <<responderVars, txVars, playerVars>>
    \/ PushClaims /\ UNCHANGED <<responderVars, txVars, playerVars>>

LoaderSpec == LoaderInit /\ [][LoaderNext]_vars

ResponderInit ==
    /\ EmptyLoader
    /\ IdleResponder /\ MaxPendingTransactions \in 1 .. MaxLimit
    /\ IdleTx
    /\ IdlePlayer

notResponderVars == <<loaderVars, txVars, playerVars>>

ResponderNext ==
    \/ \E p \in Calls : Respond(p) /\ UNCHANGED notResponderVars
    \/ \E w \in Calls : TxMgrSendReturns(w) /\ UNCHANGED notResponderVars
    \/ \E p \in Calls : HandleReceiptsRecv(p) /\ UNCHANGED notResponderVars
    \/ \E p \in Calls : HandleReceiptsShutdown(p) /\ UNCHANGED notResponderVars
    \/ \E p \in Calls : CancelCtx(p) /\ UNCHANGED notResponderVars
    \/ Quit /\ UNCHANGED notResponderVars

ResponderSpec == ResponderInit /\ [][ResponderNext]_vars

\* A goroutine blocked in the select of handleReceipts runs once one of its
\* cases is ready.  Nothing obliges the transaction manager to return, the
\* caller to cancel, or anyone to call Quit.
ResponderFairSpec ==
    /\ ResponderInit
    /\ [][ResponderNext]_vars
    /\ \A p \in Calls : WF_vars(HandleReceipts(p) /\ UNCHANGED notResponderVars)

\* buildTxData on every response claim of Responses.
TxDataInit ==
    /\ EmptyLoader
    /\ IdleResponder /\ MaxPendingTransactions = 1
    /\ response \in Responses
    /\ txBuilt = NoBuild
    /\ IdlePlayer

TxDataNext ==
    BuildTxData /\ UNCHANGED <<loaderVars, responderVars, playerVars>>

TxDataSpec == TxDataInit /\ [][TxDataNext]_vars

PlayerInit ==
    /\ EmptyLoader
    /\ IdleResponder /\ MaxPendingTransactions = 1
    /\ IdleTx
    /\ agreeWithProposedOutput \in BOOLEAN
    /\ completed = FALSE
    /\ progress = NoProgress

PlayerNext ==
    ProgressGame /\ UNCHANGED <<loaderVars, responderVars, txVars>>

PlayerSpec == PlayerInit /\ [][PlayerNext]_vars

\* ------------------------------------------------------------ loader claims
JustPushed == lastOp = "push"
JustFetched == lastOp = "fetch"

\* The log of Put calls names the supplied claims, in the supplied order.
PutsFollowInput ==
    /\ Len(pushed.puts) <= Len(pushed.input)
    /\ \A i \in 1 .. Len(pushed.puts) : pushed.puts[i].claim = pushed.input[i]

\* C1: PushClaims calls Put on the supplied claims in order and stops at the
\* first Put that returns an error: every Put before the last one made
\* returned nil, a Put that returned an error is the last one made, and its
\* error is what PushClaims returns.  A store that errors on its k-th Put sees
\* at most k Puts.
C1_PushStopsAtFirstError ==
    JustPushed =>
        LET n == Len(pushed.puts)
        IN  /\ PutsFollowInput
            /\ \A i \in 1 .. n - 1 : pushed.puts[i].err = Nil
            /\ pushed.err # Nil => n >= 1 /\ pushed.puts[n].err = pushed.err
            /\ (n >= 1 /\ pushed.puts[n].err # Nil) => pushed.err = pushed.puts[n].err
            /\ pushed.failPut \in 1 .. Len(pushed.input) => n <= pushed.failPut
            /\ (pushed.failPut = 1 /\ Len(pushed.input) >= 1)
                    => n = 1 /\ pushed.err = ErrPut(1)

\* Three claims were supplied, the store errored on the first Put, and one
\* Put was made.
C1_Witness ==
    /\ JustPushed
    /\ Len(pushed.input) = 3
    /\ pushed.failPut = 1
    /\ Len(pushed.puts) = 1
    /\ pushed.err = ErrPut(1)

\* C2: when no Put returns an error, PushClaims makes one Put per supplied
\* claim, in the supplied order, returns nil, and every supplied claim is in
\* the Game state afterwards.
C2_PushAllSucceeds ==
    (JustPushed /\ \A i \in 1 .. Len(pushed.puts) : pushed.puts[i].err = Nil) =>
        /\ Len(pushed.puts) = Len(pushed.input)
        /\ PutsFollowInput
        /\ pushed.err = Nil
        /\ \A i \in 1 .. Len(pushed.input) :
              \E k \in 1 .. Len(state) : state[k] = pushed.input[i]

\* Two claims were supplied and both Puts succeeded.
C2_Witness ==
    /\ JustPushed
    /\ Len(pushed.input) = 2
    /\ Len(pushed.puts) = 2
    /\ pushed.err = Nil
    /\ Len(state) = 2

\* C3: if ClaimDataLen errors, FetchClaims returns an empty sequence and that
\* error, and makes no ClaimData call.
C3_LenErrorFailsFast ==
    (JustFetched /\ fetched.env.lenFails) =>
        /\ fetched.claims = <<>>
        /\ fetched.err = ErrClaimLen
        /\ fetched.calls = <<>>

\* ClaimDataLen errored on a remote source that holds claims.
C3_Witness ==
    /\ JustFetched
    /\ fetched.env.lenFails
    /\ Len(remote) >= 2
    /\ fetched.err = ErrClaimLen

\* C4: if a ClaimData call errors (for a claim or for its parent), FetchClaims
\* returns an empty sequence and that call's error, and the failing call is
\* the last remote call it makes.
C4_ClaimErrorFailsFast ==
    (JustFetched /\ ~fetched.env.lenFails /\ fetched.env.failCall >= 1) =>
        /\ fetched.claims = <<>>
        /\ fetched.err = ErrClaimData(fetched.env.failCall)
        /\ Len(fetched.calls) = fetched.env.failCall

\* The fetch of a parent failed after an earlier claim had been fetched, with
\* a later index still to fetch.
C4_Witness ==
    /\ JustFetched
    /\ Len(remote) = 3
    /\ fetched.env.failCall >= 2
    /\ fetched.calls[Len(fetched.calls)].role = "parent"
    /\ fetched.calls[Len(fetched.calls)].arg # 2
    /\ \E j \in 1 .. Len(fetched.calls) :
          fetched.calls[j] = Call(1, "claim")
    /\ fetched.err = ErrClaimData(fetched.env.failCall)
    /\ fetched.claims = <<>>

IsClaimCall(c) == c.role = "claim"

\* C5: when no remote call fails, FetchClaims returns nil and one claim per
\* remote record: the i-th has the value of record i and the position its
\* position integer denotes; the records are fetched in increasing order.
C5_FetchMirrorsRemote ==
    (JustFetched /\ ~fetched.env.lenFails /\ fetched.env.failCall = 0) =>
        /\ fetched.err = Nil
        /\ Len(fetched.claims) = Len(remote)
        /\ \A i \in 1 .. Len(remote) :
              /\ i <= Len(fetched.claims)
              /\ fetched.claims[i].ClaimData.Value = remote[i].Claim
              /\ fetched.claims[i].ClaimData.Position
                    = NewPositionFromGIndex(remote[i].Position)
        /\ SelectSeq(fetched.calls, IsClaimCall)
              = [k \in 1 .. Len(remote) |-> Call(k - 1, "claim")]

\* Three records, two of them not at the root, were fetched without error.
C5_Witness ==
    /\ JustFetched
    /\ fetched.err = Nil
    /\ Len(remote) = 3
    /\ Len(fetched.claims) = 3
    /\ Len(fetched.calls) = 5

\* --------------------------------------------------------- responder claims
\* Call p got past buildTxData and handed its transaction to a queue.
Sent(p) == worker[p].st # "none"

\* C6: across concurrent Respond calls on one responder, at most
\* MaxPendingTransactions transactions are in flight at any time.
C6_InFlightBounded == Cardinality(InFlight) <= MaxPendingTransactions

\* C7: once Quit was called, every Respond call waiting for its receipt
\* eventually returns, whether or not any receipt is ever delivered.
C7_QuitReleasesEveryCall ==
    \A p \in Calls : (shutdown /\ pc[p] = "waiting") ~> (pc[p] = "returned")

\* After Quit two calls have returned nil, and no transaction manager Send
\* ever returned: no receipt was delivered to anyone.
C7_Witness ==
    /\ shutdown
    /\ \E p, q \in Calls :
          /\ p # q
          /\ pc[p] = "returned" /\ ret[p] = "nil" /\ received[p] = {}
          /\ pc[q] = "returned" /\ ret[q] = "nil" /\ received[q] = {}
          /\ worker[p].st = "inflight" /\ worker[q].st = "inflight"

\* C8: a Respond call whose transaction data was built has returned only if
\* a receipt arrived on its own channel or shutdown was signalled, and then
\* it returned nil, whatever the receipt's status.
C8_ReturnsNilAfterReceiptOrShutdown ==
    \A p \in Calls :
        (pc[p] = "returned" /\ Sent(p)) =>
            /\ \/ shutdown
               \/ \E w \in received[p] : worker[w].ch = receiptsCh[p]
            /\ ret[p] = "nil"

\* Without any shutdown a call returned nil on a receipt of a failed
\* transaction.
C8_Witness ==
    /\ ~shutdown
    /\ \E p \in Calls :
          /\ pc[p] = "returned" /\ Sent(p)
          /\ received[p] = {p}
          /\ worker[p].status = "failed"
          /\ ret[p] = "nil"

\* C9: a Respond call waiting for its receipt stops waiting once its caller's
\* ctx is done, with no receipt delivered and no Quit: whenever a call waits
\* and its ctx is done, handleReceipts can return.
C9_CtxDoneReleasesCall ==
    \A p \in Calls :
        (pc[p] = "waiting" /\ ctxDone[p]) => ENABLED HandleReceipts(p)

\* C10: every Respond call waits on a channel of its own: no two calls hold
\* the same channel, a call consumes only the receipt of the transaction it
\* sent, and at most one.
C10_ChannelsArePrivate ==
    \A p \in Calls :
        /\ received[p] \subseteq {p}
        /\ Cardinality(received[p]) <= 1
        /\ \A q \in Calls \ {p} :
              (receiptsCh[p] # 0 /\ receiptsCh[q] # 0)
                    => receiptsCh[p] # receiptsCh[q]

\* One call consumed its receipt while another call, sent too, is still
\* waiting for its own.
C10_Witness ==
    /\ ~shutdown
    /\ \E p, q \in Calls :
          /\ p # q
          /\ pc[p] = "returned" /\ received[p] = {p}
          /\ pc[q] = "waiting" /\ worker[q].st = "inflight"

\* -------------------------------------------------------- sync cycle claims
\* The fetch just made read the whole of the present remote array without
\* any remote error.
FetchedAll ==
    /\ ~fetched.env.lenFails
    /\ fetched.env.failCall = 0
    /\ fetched.err = Nil
    /\ Len(fetched.claims) = Len(remote)

\* The tree holds a claim with the record's value at the record's position.
InTree(tree, record) ==
    \E k \in 1 .. Len(tree) :
        tree[k].ClaimData = [Value |-> record.Claim,
                             Position |-> NewPositionFromGIndex(record.Position)]

\* No two records of the remote array sit at the same position.
DistinctPositions(rem) ==
    \A i, j \in 1 .. Len(rem) :
        i # j => NewPositionFromGIndex(rem[i].Position)
                    # NewPositionFromGIndex(rem[j].Position)

\* C11: a sync cycle is a FetchClaims followed by a PushClaims of what it
\* returned.  After a cycle whose fetch met no remote error, against a remote
\* array that only grows and holds one record per position, every record the
\* remote reported in that cycle is in the tree, however many cycles came
\* before.
C11_CyclesKeepTreeCurrent ==
    [][(/\ lastOp = "fetch"
        /\ lastOp' = "push"
        /\ FetchedAll
        /\ DistinctPositions(remote)
        /\ pushed'.failPut = 0)
            => \A i \in 1 .. Len(remote) : InTree(state', remote[i])]_vars

\* C12: every claim FetchClaims returns mirrors its remote record beyond value
\* and position: its ParentContractIndex is the record's parentIndex, its
\* Countered the record's countered flag, its Clock the record's clock.
C12_ClaimMirrorsRecordFields ==
    (JustFetched /\ FetchedAll) =>
        \A i \in 1 .. Len(fetched.claims) :
            /\ fetched.claims[i].ParentContractIndex = remote[i].ParentIndex
            /\ fetched.claims[i].Countered = remote[i].Countered
            /\ fetched.claims[i].Clock = remote[i].Clock

\* C13: every claim of a successful FetchClaims result, and every hydrated
\* parent, carries a Position whose generalized index is at least 1, and no
\* claim of a successful result comes from a remote record whose position
\* integer is 0.
C13_NoClaimFromZeroPosition ==
    (JustFetched /\ FetchedAll) =>
        \A i \in 1 .. Len(fetched.claims) :
            /\ remote[i].Position # 0
            /\ ToGIndex(fetched.claims[i].ClaimData.Position) >= 1
            /\ ~IsRootPosition(fetched.claims[i])
                    => /\ remote[remote[i].ParentIndex + 1].Position # 0
                       /\ ToGIndex(fetched.claims[i].Parent.Position) >= 1

\* ------------------------------------------------------ transaction claims
\* C14: the transaction data buildTxData returns encodes a defend call when
\* DefendsParent() is true of the response claim and an attack call when it
\* is not; either call carries the response's ParentContractIndex and its
\* 32-byte value.
C14_CallMatchesDefendsParent ==
    (txBuilt.built /\ txBuilt.err = Nil) =>
        /\ DefendsParent(response) => txBuilt.txData.data.method = "defend"
        /\ ~DefendsParent(response) => txBuilt.txData.data.method = "attack"
        /\ txBuilt.txData.data.parentIndex = response.ParentContractIndex
        /\ txBuilt.txData.data.pivot = response.ClaimData.Value

\* A defend call was built for a response at the right child of the root,
\* answering the claim at index 2 of the contract's array.
C14_Witness ==
    /\ txBuilt.built
    /\ txBuilt.err = Nil
    /\ ToGIndex(response.ClaimData.Position) = 3
    /\ ToGIndex(response.Parent.Position) = 1
    /\ response.ParentContractIndex = 2
    /\ txBuilt.txData.data.method = "defend"
    /\ txBuilt.txData.data.parentIndex = 2

\* C15: when building the transaction data fails, Respond returns the
\* encoding error from where it stands: the step that returns the error is
\* the call's first, it makes no channel, hands nothing to any queue, starts
\* no worker, and leaves every other call as it was.
C15_EncodeErrorReturnsAtOnce ==
    [][\A p \in Calls :
          (ret[p] # "err" /\ ret'[p] = "err") =>
              /\ pc[p] = "idle"
              /\ pc'[p] = "returned"
              /\ receiptsCh' = receiptsCh
              /\ nextCh' = nextCh
              /\ queue' = queue
              /\ worker' = worker
              /\ received' = received
              /\ \A q \in Calls \ {p} : pc'[q] = pc[q] /\ ret'[q] = ret[q]]_vars

\* One call returned the encoding error having sent nothing, and another
\* call on the same responder got its receipt.
C15_Witness ==
    \E p, q \in Calls :
        /\ p # q
        /\ pc[p] = "returned" /\ ret[p] = "err"
        /\ ~Sent(p) /\ receiptsCh[p] = 0 /\ queue[p] = {}
        /\ pc[q] = "returned" /\ ret[q] = "nil" /\ received[q] = {q}

\* ----------------------------------------------------- fetch and push claims
\* C16: FetchClaims leaves the Game state as it found it, whether it succeeds
\* or fails: it makes no Put, and the error it returns is never one of Put,
\* so it never fails for a claim that the tree already holds.
C16_FetchLeavesTreeAlone ==
    [][lastOp' = "fetch" =>
          /\ state' = state
          /\ pushed'.puts = <<>>
          /\ fetched'.err.kind \in {"nil", "ClaimDataLen", "ClaimData"}]_vars

\* FetchClaims succeeded on a remote array whose two claims the tree already
\* holds.
C16_Witness ==
    /\ JustFetched
    /\ FetchedAll
    /\ Len(fetched.claims) = 2
    /\ Len(state) = 2
    /\ \A i \in 1 .. 2 : IsDuplicate(state, fetched.claims[i])

\* Where the fetch of the i-th claim stands in the log of ClaimData calls.
ClaimCallAt(i) ==
    CHOOSE k \in 1 .. Len(fetched.calls) : fetched.calls[k] = Call(i - 1, "claim")

\* The k-th logged call, if there is one, fetches a claim and not a parent.
NoParentCallAt(k) == k <= Len(fetched.calls) => fetched.calls[k].role = "claim"

\* C17: in a successful FetchClaims the root claim is not hydrated and costs
\* no parent fetch; a claim not at the root costs exactly one more ClaimData
\* call, made right after its own for the parentIndex of its record, and its
\* Parent is that record's value and position.  n claims take n calls plus
\* one per claim not at the root.
C17_OneParentFetchPerNonRoot ==
    (JustFetched /\ FetchedAll) =>
        /\ Len(fetched.calls)
              = Len(fetched.claims)
                + Cardinality({i \in 1 .. Len(fetched.claims) :
                                 ~IsRootPosition(fetched.claims[i])})
        /\ \A i \in 1 .. Len(fetched.claims) :
              LET c == fetched.claims[i]
                  k == ClaimCallAt(i)
                  parentIndex == remote[i].ParentIndex
                  parentRecord == remote[parentIndex + 1]
              IN  /\ \E j \in 1 .. Len(fetched.calls) :
                        fetched.calls[j] = Call(i - 1, "claim")
                  /\ IF IsRootPosition(c)
                     THEN /\ c.Parent = ZeroClaimData
                          /\ NoParentCallAt(k + 1)
                     ELSE /\ k + 1 <= Len(fetched.calls)
                          /\ fetched.calls[k + 1] = Call(parentIndex, "parent")
                          /\ NoParentCallAt(k + 2)
                          /\ c.Parent
                                = [Value |-> parentRecord.Claim,
                                   Position |-> NewPositionFromGIndex(parentRecord.Position)]

\* Three claims were fetched in five calls: the root with no parent fetch,
\* and two claims below it, one of them hydrated from the record at index 1.
C17_Witness ==
    /\ JustFetched
    /\ FetchedAll
    /\ Len(fetched.claims) = 3
    /\ Len(fetched.calls) = 5
    /\ IsRootPosition(fetched.claims[1])
    /\ fetched.claims[1].Parent = ZeroClaimData
    /\ fetched.calls[5] = Call(1, "parent")
    /\ fetched.claims[3].Parent.Value = remote[2].Claim

\* --------------------------------------------------------- delivery claims
\* C18: every receipt a queue worker sends on a completion channel is
\* received: whenever a worker is blocked in its send, a Respond call is
\* still waiting on that channel to take it, also after Quit.  (A call that
\* has returned never receives again, so a send with no waiting call stays
\* blocked for good.)
C18_EveryReceiptHasAReceiver ==
    \A w \in Calls :
        worker[w].st = "sending" =>
            \E p \in Calls : pc[p] = "waiting" /\ receiptsCh[p] = worker[w].ch

\* C19: PushClaims is not atomic.  When the Put of the k-th claim returns an
\* error, the Game state holds what it held before the call followed by the
\* k-1 claims this call inserted, and nothing of the k-th claim or of those
\* after it.
C19_FailedPushKeepsPrefix ==
    (JustPushed /\ pushed.err # Nil) =>
        LET k == Len(pushed.puts)
        IN  /\ k >= 1
            /\ pushed.puts[k].err = pushed.err
            /\ state = pushed.before \o SubSeq(pushed.input, 1, k - 1)

\* The third Put of a PushClaims failed; the two claims before it are in the
\* Game state.
C19_Witness ==
    /\ JustPushed
    /\ pushed.err # Nil
    /\ Len(pushed.puts) = 3
    /\ Len(state) = Len(pushed.before) + 2
    /\ state[Len(state)] = pushed.input[2]

\* ------------------------------------------------------------ player claims
\* C20: completion is sticky.  Once a ProgressGame call has seen a status
\* other than in progress, completed is true and stays true; a call made on
\* a completed player returns true and neither calls Act nor queries the
\* status; a call whose status query fails returns false and leaves
\* completed as it was.
C20_CompletionIsSticky ==
    [][progress'.calls = progress.calls + 1 =>
          /\ progress'.sawResolved => completed'
          /\ completed =>
                /\ completed'
                /\ progress'.ret = TRUE
                /\ progress'.acts = progress.acts
                /\ progress'.queries = progress.queries
          /\ (~completed /\ progress'.statusErr) =>
                /\ progress'.ret = FALSE
                /\ completed' = completed
                /\ progress'.acts = progress.acts + 1]_vars

\* A status query failed, the next call saw the game resolved, and two more
\* calls were skipped.
C20_Witness ==
    /\ completed
    /\ progress.sawResolved
    /\ progress.calls = 4
    /\ progress.acts = 2
    /\ progress.queries = 2
    /\ progress.before
    /\ progress.ret = TRUE
    /\ progress.line = "Skipping completed game"

====
